---- MODULE Spec2Model ----
(***************************************************************************)
(* Model of the scripts of the public-site-design-system-modernizer skill. *)
(*                                                                         *)
(* validate_intake_config.py: the primitive checkers, the six section      *)
(* validators and main() with its strict-guardrails pass (Spec), and the   *)
(* primitive checkers called on their own (SpecCheckers).                  *)
(* render_run_plan.py: normalize_urls as main() calls it (SpecRender).     *)
(* validate_output_package.py: main() (SpecPackage).                       *)
(* Each specification runs one program; the variables of the other         *)
(* programs stay idle in it.                                               *)
(*                                                                         *)
(* JSON values are tagged records.  A number keeps its Python type: an     *)
(* "int" carries the integer itself, a "float" carries its value in        *)
(* tenths; Tenths() brings both to one scale for the comparisons.  A       *)
(* string is the sequence of its lexemes (the prefixes "http://",          *)
(* "https://", the substrings "localhost", "127.0.0.1", the blank " " and  *)
(* opaque words), so that startswith, "in" and strip() are computed.  A    *)
(* finding "path: message" is the record of its dotted path, held as the   *)
(* sequence of its segments, and its message.                              *)
(***************************************************************************)
EXTENDS Integers, Sequences, FiniteSets, TLC

VARIABLES
    pc,                 \* position in main()
    file,               \* what load_json finds at args.config_json
    strict_guardrails,  \* args.strict_guardrails
    cfg,                \* the loaded configuration (None before the load)
    errors,             \* main's errors list
    warnings,           \* main's warnings list
    calls,              \* the validator calls made so far, with what each appended
    exitCode,           \* value main() returned (NoExit while it has not returned)
    summary,            \* the last line main() printed
    \* a primitive checker called on its own
    chk_pc,             \* "call" before the checker runs, "returned" after
    chk_call,           \* the checker and its arguments, with the list as passed
    chk_errors,         \* the errors list the checker appends to
    \* render_run_plan.py
    rp_pc,              \* position in main()
    urls_json,          \* args.urls_json: the JSON value in that file, or NoUrlsArg
    rp_urls,            \* main's urls
    \* validate_output_package.py
    pkg_pc,             \* position in main()
    root,               \* the files under the root directory, by relative path
    pkg_errors,         \* main's errors list
    pkg_warnings,       \* main's warnings list
    pkg_exit,           \* value main() returned (NoExit while it has not returned)
    pkg_summary         \* the last line main() printed

intakeVars == <<pc, file, strict_guardrails, cfg, errors, warnings, calls, exitCode, summary>>
checkerVars == <<chk_pc, chk_call, chk_errors>>
renderVars == <<rp_pc, urls_json, rp_urls>>
packageVars == <<pkg_pc, root, pkg_errors, pkg_warnings, pkg_exit, pkg_summary>>

vars == <<intakeVars, checkerVars, renderVars, packageVars>>

(* ---------------------------- bounds ---------------------------------- *)

\* integers range over -1 .. MaxInt
MaxInt == 2
\* floats range over -0.1 .. MaxTenths/10 in steps of 0.1
MaxTenths == 12
\* lists hold at most MaxListLen items
MaxListLen == 2

(* --------------------------- JSON values ------------------------------ *)

Null == [t |-> "null"]
JBool(b) == [t |-> "bool", b |-> b]
JInt(n) == [t |-> "int", v |-> n]
JFloat(n) == [t |-> "float", v |-> n]
JStr(s) == [t |-> "str", s |-> s]
JList(items) == [t |-> "list", items |-> items]
JObj(f) == [t |-> "obj", f |-> f]
Word(w) == JStr(<<w>>)

IsDict(v) == v.t = "obj"
IsList(v) == v.t = "list"
IsStr(v) == v.t = "str"
IsBool(v) == v.t = "bool"
\* isinstance(v, int): bool is a subclass of int
IsInstanceInt(v) == v.t \in {"int", "bool"}
IsTrue(v) == v = JBool(TRUE)
IsFalse(v) == v = JBool(FALSE)

\* dict.get(key): the value, or None when the key is absent
Get(obj, key) == IF key \in DOMAIN obj.f THEN obj.f[key] ELSE Null

\* value of a number in tenths
Tenths(v) == IF v.t = "int" THEN 10 * v.v ELSE v.v

\* Python truth value of a JSON value
Truthy(v) ==
    CASE v.t = "null" -> FALSE
      [] v.t = "bool" -> v.b
      [] v.t = "int" -> v.v # 0
      [] v.t = "float" -> v.v # 0
      [] v.t = "str" -> v.s # <<>>
      [] v.t = "list" -> v.items # <<>>
      [] v.t = "obj" -> DOMAIN v.f # {}

\* hash(v) raises TypeError for lists and dicts
Unhashable(v) == v.t \in {"list", "obj"}

\* sub in s
Contains(s, lexeme) == \E i \in 1..Len(s) : s[i] = lexeme

RECURSIVE LStrip(_)
LStrip(s) == IF s # <<>> /\ Head(s) = " " THEN LStrip(Tail(s)) ELSE s

RECURSIVE RStrip(_)
RStrip(s) ==
    IF s # <<>> /\ s[Len(s)] = " " THEN RStrip(SubSeq(s, 1, Len(s) - 1)) ELSE s

\* str.strip()
Strip(s) == RStrip(LStrip(s))

(* --------------------------- constants -------------------------------- *)

ALLOWED_AUDIENCES == {Word("designer"), Word("developer"), Word("both")}
ALLOWED_INTENDED_USE ==
    {Word("internal_exploration"), Word("client_work"), Word("rebuild_baseline")}
ALLOWED_CRAWL_MODES ==
    {Word("representative_sample"), Word("bounded_full"), Word("custom_urls"),
     Word("sitemap")}
ALLOWED_FALLBACKS ==
    {Word("suggest_candidates"), Word("mark_unknown"), Word("infer_ranges")}
DEFAULT_EXCLUDE_HINTS ==
    {Word("/legal"), Word("/privacy"), Word("/terms"), Word("/careers"),
     Word("/login")}
CONFIRMATION_KEYS ==
    <<"public_access_confirmed", "non_clone_intent_confirmed",
      "asset_rights_warning_confirmed">>
SCREENSHOT_KEYS == <<"desktop", "mobile", "tablet">>
CAPTURE_BOOL_KEYS == <<"html", "css", "text", "asset_metadata", "component_candidates">>
QUALITY_BOOL_KEYS ==
    <<"require_contrast_checks", "require_anti_pattern_report", "require_pnie_matrix">>

(* ------------------------ primitive checkers -------------------------- *)

Finding(path, message) == [path |-> path, msg |-> message]

is_http_url(value) ==
    IsStr(value) /\ value.s # <<>> /\ Head(value.s) \in {"http://", "https://"}

add_error(errs, path, message) == Append(errs, Finding(path, message))

add_warn(warns, path, message) == Append(warns, Finding(path, message))

expect_bool(obj, key, path, errs) ==
    IF key \notin DOMAIN obj.f
    THEN add_error(errs, Append(path, key), "missing required boolean")
    ELSE IF ~IsBool(obj.f[key])
         THEN add_error(errs, Append(path, key), "must be boolean")
         ELSE errs

\* f"must be >= {minimum}" for the minimum the call passes
MinimumMessage(minimum) ==
    CASE minimum = JInt(1) -> "must be >= 1"
      [] minimum = JInt(0) -> "must be >= 0"
      [] minimum = JFloat(1) -> "must be >= 0.1"
      [] minimum = JFloat(0) -> "must be >= 0.0"

\* expect_number without "and not isinstance(value, bool)": True and False
\* count as the integers 1 and 0
expect_number_bool_is_int(obj, key, path, errs, minimum, integer) ==
    IF key \notin DOMAIN obj.f
    THEN add_error(errs, Append(path, key), "missing required number")
    ELSE LET value == obj.f[key]
             ok_type == IsInstanceInt(value) \/ (~integer /\ value.t = "float")
             tenths == IF IsBool(value) THEN (IF value.b THEN 10 ELSE 0) ELSE Tenths(value)
         IN  IF ~ok_type
             THEN add_error(errs, Append(path, key), "must be a number")
             ELSE IF minimum # Null /\ tenths < Tenths(minimum)
                  THEN add_error(errs, Append(path, key), MinimumMessage(minimum))
                  ELSE errs

expect_number(obj, key, path, errs, minimum, integer) ==
    IF key \notin DOMAIN obj.f
    THEN add_error(errs, Append(path, key), "missing required number")
    ELSE LET value == obj.f[key]
             ok_type == (IsInstanceInt(value) /\ ~IsBool(value))
                        \/ (~integer /\ value.t = "float")
         IN  IF ~ok_type
             THEN add_error(errs, Append(path, key), "must be a number")
             ELSE IF minimum # Null /\ Tenths(value) < Tenths(minimum)
                  THEN add_error(errs, Append(path, key), MinimumMessage(minimum))
                  ELSE errs

\* expect_bool for each key of a tuple of keys, in order
RECURSIVE ExpectBools(_, _, _, _)
ExpectBools(obj, keys, path, errs) ==
    IF keys = <<>> THEN errs
    ELSE ExpectBools(obj, Tail(keys), path, expect_bool(obj, Head(keys), path, errs))

\* for key in keys: if key in obj and not isinstance(obj[key], bool): add_error
RECURSIVE BoolIfPresent(_, _, _, _)
BoolIfPresent(obj, keys, path, errs) ==
    IF keys = <<>> THEN errs
    ELSE BoolIfPresent(obj, Tail(keys), path,
            IF Head(keys) \in DOMAIN obj.f /\ ~IsBool(obj.f[Head(keys)])
            THEN add_error(errs, Append(path, Head(keys)), "must be boolean")
            ELSE errs)

\* outcome of a validator: the two lists as it leaves them, and whether it
\* left by an exception
Returned(errs, warns) == [e |-> errs, w |-> warns, raised |-> FALSE]
Raised(errs, warns) == [e |-> errs, w |-> warns, raised |-> TRUE]

(* ------------------------- section validators ------------------------- *)

\* lines 72-85: the checks on the fields of the project object
project_fields(project, errs, warns) ==
    LET name == Get(project, "name")
        e1 == IF ~IsStr(name) \/ Strip(name.s) = <<>>
              THEN add_error(errs, <<"project", "name">>, "must be a non-empty string")
              ELSE errs
        source_url == Get(project, "source_url")
        e2 == IF ~is_http_url(source_url)
              THEN add_error(e1, <<"project", "source_url">>, "must be a public http(s) URL")
              ELSE e1
        w2 == IF is_http_url(source_url)
                 /\ (Contains(source_url.s, "localhost") \/ Contains(source_url.s, "127.0.0.1"))
              THEN add_warn(warns, <<"project", "source_url">>,
                            "looks local/private; this skill is for public websites only")
              ELSE warns
        audience == Get(project, "output_audience")
        intended == Get(project, "intended_use")
    IN  IF Unhashable(audience) THEN Raised(e2, w2)
        ELSE
        LET e3 == IF audience \notin ALLOWED_AUDIENCES
                  THEN add_error(e2, <<"project", "output_audience">>,
                                 "must be one of ['both', 'designer', 'developer']")
                  ELSE e2
        IN  IF Unhashable(intended) THEN Raised(e3, w2)
            ELSE Returned(
                   IF intended \notin ALLOWED_INTENDED_USE
                   THEN add_error(e3, <<"project", "intended_use">>,
                          "must be one of ['client_work', 'internal_exploration', 'rebuild_baseline']")
                   ELSE e3,
                   w2)

validate_project(config, errs, warns) ==
    LET project == Get(config, "project") IN
    IF ~IsDict(project)
    THEN Returned(add_error(errs, <<"project">>, "missing required object"), warns)
    ELSE project_fields(project, errs, warns)

\* all(isinstance(x, str) for x in items)
AllStr(items) == \A i \in 1..Len(items) : IsStr(items[i])

\* all(is_http_url(u) for u in items)
AllHttp(items) == \A i \in 1..Len(items) : is_http_url(items[i])

\* set(items)
ToSet(items) == {items[i] : i \in 1..Len(items)}

\* lines 94-130: the checks on the fields of the scope object
scope_fields(scope, errs, warns) ==
    LET crawl_mode == Get(scope, "crawl_mode") IN
    IF Unhashable(crawl_mode) THEN Raised(errs, warns)
    ELSE
    LET e1 == IF crawl_mode \notin ALLOWED_CRAWL_MODES
              THEN add_error(errs, <<"scope", "crawl_mode">>,
                     "must be one of ['bounded_full', 'custom_urls', 'representative_sample', 'sitemap']")
              ELSE errs
        e2 == expect_number(scope, "max_pages", <<"scope">>, e1, JInt(1), TRUE)
        e3 == expect_number(scope, "max_depth", <<"scope">>, e2, JInt(0), TRUE)
        e4 == expect_bool(scope, "include_subdomains", <<"scope">>, e3)
        e5 == expect_bool(scope, "respect_robots_txt", <<"scope">>, e4)
        e6 == expect_number(scope, "crawl_delay_ms", <<"scope">>, e5, JInt(0), TRUE)
        e7 == expect_number(scope, "requests_per_second", <<"scope">>, e6, JFloat(1), FALSE)
        exclude_paths == Get(scope, "exclude_paths")
        exclude_ok == IsList(exclude_paths) /\ AllStr(exclude_paths.items)
        e8 == IF ~exclude_ok
              THEN add_error(e7, <<"scope", "exclude_paths">>, "must be a list of strings")
              ELSE e7
        w8 == IF exclude_ok /\ DEFAULT_EXCLUDE_HINTS \cap ToSet(exclude_paths.items) = {}
              THEN add_warn(warns, <<"scope", "exclude_paths">>,
                     "does not include common low-value paths (/legal,/privacy,/terms,/careers,/login)")
              ELSE warns
        urls == Get(scope, "custom_urls")
        e9 == IF crawl_mode = Word("custom_urls")
              THEN IF ~IsList(urls) \/ ~Truthy(urls)
                   THEN add_error(e8, <<"scope", "custom_urls">>,
                          "required non-empty list when crawl_mode=custom_urls")
                   ELSE IF ~AllHttp(urls.items)
                        THEN add_error(e8, <<"scope", "custom_urls">>,
                               "all entries must be http(s) URLs")
                        ELSE e8
              ELSE e8
        w9 == IF crawl_mode # Word("custom_urls")
                 /\ "custom_urls" \in DOMAIN scope.f /\ Truthy(urls)
              THEN add_warn(w8, <<"scope", "custom_urls">>,
                            "ignored unless crawl_mode=custom_urls")
              ELSE w8
        sitemap_url == Get(scope, "sitemap_url")
        e10 == IF crawl_mode = Word("sitemap") /\ ~is_http_url(sitemap_url)
               THEN add_error(e9, <<"scope", "sitemap_url">>,
                      "required http(s) URL when crawl_mode=sitemap")
               ELSE e9
        w10 == IF crawl_mode # Word("sitemap")
                  /\ "sitemap_url" \in DOMAIN scope.f /\ Truthy(sitemap_url)
               THEN add_warn(w9, <<"scope", "sitemap_url">>,
                             "ignored unless crawl_mode=sitemap")
               ELSE w9
    IN  Returned(e10, w10)

validate_scope(config, errs, warns) ==
    LET scope == Get(config, "scope") IN
    IF ~IsDict(scope)
    THEN Returned(add_error(errs, <<"scope">>, "missing required object"), warns)
    ELSE scope_fields(scope, errs, warns)

\* screenshot_errors requiring only that desktop is not false
screenshot_errors_false_only(screenshots, errs) ==
    LET t == BoolIfPresent(screenshots, SCREENSHOT_KEYS, <<"capture", "screenshots">>, errs)
    IN  IF IsFalse(Get(screenshots, "desktop"))
        THEN add_error(t, <<"capture", "screenshots", "desktop">>, "must be true (required)")
        ELSE t

\* lines 143-149: the checks on the keys of the screenshots object
screenshot_errors(screenshots, errs) ==
    LET t == BoolIfPresent(screenshots, SCREENSHOT_KEYS, <<"capture", "screenshots">>, errs)
    IN  IF ~IsTrue(Get(screenshots, "desktop"))
        THEN add_error(t, <<"capture", "screenshots", "desktop">>, "must be true (required)")
        ELSE t

screenshot_warnings(screenshots, warns) ==
    IF ~IsTrue(Get(screenshots, "mobile"))
    THEN add_warn(warns, <<"capture", "screenshots", "mobile">>,
                  "recommended true for better visual hierarchy coverage")
    ELSE warns

\* lines 139-159: the checks on the fields of the capture object
capture_fields(capture, errs, warns) ==
    LET screenshots == Get(capture, "screenshots")
        e1 == IF ~IsDict(screenshots)
              THEN add_error(errs, <<"capture", "screenshots">>, "missing required object")
              ELSE screenshot_errors(screenshots, errs)
        w1 == IF IsDict(screenshots) THEN screenshot_warnings(screenshots, warns) ELSE warns
        e2 == ExpectBools(capture, CAPTURE_BOOL_KEYS, <<"capture">>, e1)
        e3 == IF "computed_css_samples" \in DOMAIN capture.f
                 /\ ~IsBool(capture.f["computed_css_samples"])
              THEN add_error(e2, <<"capture", "computed_css_samples">>,
                             "must be boolean if provided")
              ELSE e2
        w2 == IF IsFalse(Get(capture, "css"))
              THEN add_warn(w1, <<"capture", "css">>,
                            "disabling CSS reduces token extraction quality")
              ELSE w1
        w3 == IF IsFalse(Get(capture, "text"))
              THEN add_warn(w2, <<"capture", "text">>,
                            "disabling text reduces voice DNA extraction quality")
              ELSE w2
    IN  Returned(e3, w3)

\* validate_capture without the return after "missing required object": the
\* next statement calls .get on a value that is not a dict and raises
validate_capture_no_return(config, errs, warns) ==
    LET capture == Get(config, "capture") IN
    IF ~IsDict(capture)
    THEN Raised(add_error(errs, <<"capture">>, "missing required object"), warns)
    ELSE capture_fields(capture, errs, warns)

validate_capture(config, errs, warns) ==
    LET capture == Get(config, "capture") IN
    IF ~IsDict(capture)
    THEN Returned(add_error(errs, <<"capture">>, "missing required object"), warns)
    ELSE capture_fields(capture, errs, warns)

\* threshold_branch with the bounds 1 and 0.7 on the wrong side
threshold_branch_inclusive(threshold) ==
    IF threshold.t \in {"int", "float"}
    THEN IF Tenths(threshold) >= 10 THEN "over"
         ELSE IF Tenths(threshold) <= 7 THEN "under" ELSE "none"
    ELSE "none"

\* lines 177-181: the range checks on the threshold; "over" is the branch
\* threshold > 1, "under" the branch elif threshold < 0.7
threshold_branch(threshold) ==
    IF threshold.t \in {"int", "float"}
    THEN IF Tenths(threshold) > 10 THEN "over"
         ELSE IF Tenths(threshold) < 7 THEN "under" ELSE "none"
    ELSE "none"

\* lines 168-188: the checks on the fields of the quality object
quality_fields(quality, errs, warns) ==
    LET e1 == expect_number(quality, "canonical_token_confidence_threshold",
                            <<"quality">>, errs, JFloat(0), FALSE)
        threshold == Get(quality, "canonical_token_confidence_threshold")
        e2 == IF threshold_branch(threshold) = "over"
              THEN add_error(e1, <<"quality", "canonical_token_confidence_threshold">>,
                             "must be <= 1")
              ELSE e1
        w2 == IF threshold_branch(threshold) = "under"
              THEN add_warn(warns, <<"quality", "canonical_token_confidence_threshold">>,
                            "below recommended default 0.70")
              ELSE warns
        fallback == Get(quality, "low_confidence_fallback")
    IN  IF Unhashable(fallback) THEN Raised(e2, w2)
        ELSE
        LET e3 == IF fallback \notin ALLOWED_FALLBACKS
                  THEN add_error(e2, <<"quality", "low_confidence_fallback">>,
                         "must be one of ['infer_ranges', 'mark_unknown', 'suggest_candidates']")
                  ELSE e2
        IN  Returned(ExpectBools(quality, QUALITY_BOOL_KEYS, <<"quality">>, e3), w2)

validate_quality(config, errs, warns) ==
    LET quality == Get(config, "quality") IN
    IF ~IsDict(quality)
    THEN Returned(add_error(errs, <<"quality">>, "missing required object"), warns)
    ELSE quality_fields(quality, errs, warns)

validate_guardrails(config, errs) ==
    LET mode == Get(config, "mode")
        e1 == IF mode # Word("brand_faithful_modernization")
              THEN add_error(errs, <<"mode">>, "must equal 'brand_faithful_modernization'")
              ELSE errs
        guardrails == Get(config, "guardrails")
    IN  IF guardrails = Null THEN e1
        ELSE IF ~IsDict(guardrails)
             THEN add_error(e1, <<"guardrails">>, "must be an object if provided")
             ELSE BoolIfPresent(guardrails, CONFIRMATION_KEYS, <<"guardrails">>, e1)

validate_output(config, warns) ==
    LET output == Get(config, "output") IN
    IF output = Null THEN warns
    ELSE IF ~IsDict(output)
         THEN add_warn(warns, <<"output">>, "should be an object if provided")
         ELSE LET formats == Get(output, "formats") IN
              IF formats # Null /\ IsDict(formats)
                 /\ (IsFalse(Get(formats, "markdown")) \/ IsFalse(Get(formats, "json")))
              THEN add_warn(warns, <<"output", "formats">>,
                            "markdown and json are required by this skill")
              ELSE warns

\* lines 250-257 of main(): the strict-guardrails pass
RECURSIVE StrictKeys(_, _, _)
StrictKeys(guardrails, keys, errs) ==
    IF keys = <<>> THEN errs
    ELSE StrictKeys(guardrails, Tail(keys),
            IF ~IsTrue(Get(guardrails, Head(keys)))
            THEN add_error(errs, <<"guardrails", Head(keys)>>, "must be true before crawling")
            ELSE errs)

\* strict_pass keeping the leniency of the base pass for an absent guardrails
strict_pass_lenient(config, errs) ==
    LET guardrails == Get(config, "guardrails") IN
    IF guardrails = Null THEN errs
    ELSE IF ~IsDict(guardrails)
         THEN add_error(errs, <<"guardrails">>, "required when --strict-guardrails is set")
         ELSE StrictKeys(guardrails, CONFIRMATION_KEYS, errs)

\* strict_pass checking the three keys also when guardrails is not an object
strict_pass_no_else(config, errs) ==
    LET guardrails == Get(config, "guardrails") IN
    IF ~IsDict(guardrails)
    THEN StrictKeys(JObj(<<>>), CONFIRMATION_KEYS,
            add_error(errs, <<"guardrails">>, "required when --strict-guardrails is set"))
    ELSE StrictKeys(guardrails, CONFIRMATION_KEYS, errs)

strict_pass(config, errs) ==
    LET guardrails == Get(config, "guardrails") IN
    IF ~IsDict(guardrails)
    THEN add_error(errs, <<"guardrails">>, "required when --strict-guardrails is set")
    ELSE StrictKeys(guardrails, CONFIRMATION_KEYS, errs)

(* ------------------------------ inputs -------------------------------- *)

Strings ==
    {<<>>, <<" ">>, <<"x">>, <<" ", "x", " ">>, <<"http://", "a">>, <<"https://", "a">>,
     <<"http://", "localhost">>, <<"https://", "127.0.0.1">>, <<"ftp://", "a">>,
     <<"/legal">>, <<"brand_faithful_modernization">>}
    \cup {w.s : w \in ALLOWED_AUDIENCES \cup ALLOWED_INTENDED_USE
                      \cup ALLOWED_CRAWL_MODES \cup ALLOWED_FALLBACKS}

ListItems == {JStr(<<"http://", "a">>), Word("/legal"), Word("x"), JInt(1)}

Lists == UNION {[1..n -> ListItems] : n \in 0..MaxListLen}

\* the JSON values a field is given
JsonValues ==
    {Null, JBool(TRUE), JBool(FALSE), JObj(<<>>), JObj([a |-> Null])}
    \cup {JInt(n) : n \in -1..MaxInt}
    \cup {JFloat(n) : n \in -1..MaxTenths}
    \cup {JStr(s) : s \in Strings}
    \cup {JList(l) : l \in Lists}

\* a configuration that validates with no finding, with every known key
FullCfg ==
    JObj([
      mode |-> Word("brand_faithful_modernization"),
      project |-> JObj([
        name |-> Word("x"),
        source_url |-> JStr(<<"https://", "a">>),
        output_audience |-> Word("both"),
        intended_use |-> Word("client_work")]),
      scope |-> JObj([
        crawl_mode |-> Word("representative_sample"),
        max_pages |-> JInt(2),
        max_depth |-> JInt(1),
        include_subdomains |-> JBool(FALSE),
        respect_robots_txt |-> JBool(TRUE),
        crawl_delay_ms |-> JInt(0),
        requests_per_second |-> JFloat(5),
        exclude_paths |-> JList(<<Word("/legal")>>),
        custom_urls |-> JList(<<JStr(<<"http://", "a">>)>>),
        sitemap_url |-> JStr(<<"https://", "a">>)]),
      capture |-> JObj([
        screenshots |-> JObj([
          desktop |-> JBool(TRUE), mobile |-> JBool(TRUE), tablet |-> JBool(FALSE)]),
        html |-> JBool(TRUE),
        css |-> JBool(TRUE),
        text |-> JBool(TRUE),
        asset_metadata |-> JBool(TRUE),
        component_candidates |-> JBool(TRUE),
        computed_css_samples |-> JBool(FALSE)]),
      quality |-> JObj([
        canonical_token_confidence_threshold |-> JFloat(8),
        low_confidence_fallback |-> Word("mark_unknown"),
        require_contrast_checks |-> JBool(TRUE),
        require_anti_pattern_report |-> JBool(TRUE),
        require_pnie_matrix |-> JBool(TRUE)]),
      guardrails |-> JObj([
        public_access_confirmed |-> JBool(TRUE),
        non_clone_intent_confirmed |-> JBool(TRUE),
        asset_rights_warning_confirmed |-> JBool(TRUE)]),
      output |-> JObj([
        formats |-> JObj([markdown |-> JBool(TRUE), json |-> JBool(TRUE)])])])

\* v with the value at path replaced by new
RECURSIVE SetPath(_, _, _)
SetPath(v, path, new) ==
    IF path = <<>> THEN new
    ELSE JObj([k \in DOMAIN v.f \cup {Head(path)} |->
                 IF k = Head(path) THEN SetPath(Get(v, k), Tail(path), new)
                 ELSE v.f[k]])

\* v without the key at path
RECURSIVE DelPath(_, _)
DelPath(v, path) ==
    IF Len(path) = 1 THEN JObj([k \in DOMAIN v.f \ {Head(path)} |-> v.f[k]])
    ELSE JObj([k \in DOMAIN v.f |->
                 IF k = Head(path) THEN DelPath(v.f[k], Tail(path)) ELSE v.f[k]])

\* the dotted paths of the keys of v
RECURSIVE AllPaths(_)
AllPaths(v) ==
    IF ~IsDict(v) THEN {}
    ELSE UNION {{<<k>>} \cup {<<k>> \o p : p \in AllPaths(v.f[k])} : k \in DOMAIN v.f}

FieldPaths == AllPaths(FullCfg)

\* the finding-free configuration of each crawl mode: the mode-dependent
\* fields are present only in their own mode
BaseCfg(mode) ==
    LET c1 == SetPath(FullCfg, <<"scope", "crawl_mode">>, mode)
        c2 == IF mode = Word("custom_urls") THEN c1
              ELSE DelPath(c1, <<"scope", "custom_urls">>)
    IN  IF mode = Word("sitemap") THEN c2 ELSE DelPath(c2, <<"scope", "sitemap_url">>)

BaseCfgs == {BaseCfg(m) : m \in ALLOWED_CRAWL_MODES}

REQUIRED_SECTIONS == {"project", "scope", "capture", "quality"}

\* configurations whose only findings are warnings
WarnedCfgs ==
    {SetPath(BaseCfg(Word("bounded_full")), e[1], e[2]) : e \in
       {<<<<"scope", "custom_urls">>, JList(<<Word("x")>>)>>,
        <<<<"scope", "exclude_paths">>, JList(<<>>)>>,
        <<<<"project", "source_url">>, JStr(<<"http://", "localhost">>)>>,
        <<<<"capture", "screenshots", "mobile">>, JBool(FALSE)>>,
        <<<<"capture", "css">>, JBool(FALSE)>>,
        <<<<"quality", "canonical_token_confidence_threshold">>, JFloat(5)>>,
        <<<<"output">>, JInt(1)>>,
        <<<<"output", "formats", "json">>, JBool(FALSE)>>}}

\* the configurations validated: a base configuration with one field set to
\* any JSON value or removed, and a warned configuration less one section
Configs ==
    BaseCfgs
    \cup {SetPath(b, p, v) : b \in BaseCfgs, p \in FieldPaths, v \in JsonValues}
    \cup {DelPath(b, p) : b \in BaseCfgs, p \in FieldPaths}
    \cup WarnedCfgs
    \cup {DelPath(c, <<sec>>) : c \in WarnedCfgs, sec \in REQUIRED_SECTIONS}

Unreadable == [kind |-> "unreadable", value |-> Null]
InvalidJson == [kind |-> "invalid", value |-> Null]
JsonFile(v) == [kind |-> "json", value |-> v]

Files == {Unreadable, InvalidJson} \cup {JsonFile(v) : v \in Configs \cup JsonValues}

(* ------------------------------- main --------------------------------- *)

NoExit == -1
NoSummary == [line |-> "none", errors |-> 0, warnings |-> 0]
Call(fn, e, w) == [fn |-> fn, e |-> e, w |-> w]

\* the part of after that was appended to before
Added(before, after) == SubSeq(after, Len(before) + 1, Len(after))

\* the variables of a program that does not run
NoCall == [fn |-> "none"]
NoUrlsArg == [t |-> "absent"]
CheckersIdle == chk_pc = "idle" /\ chk_call = NoCall /\ chk_errors = <<>>
RenderIdle == rp_pc = "idle" /\ urls_json = NoUrlsArg /\ rp_urls = <<>>
PackageIdle ==
    /\ pkg_pc = "idle" /\ root = <<>> /\ pkg_errors = <<>> /\ pkg_warnings = <<>>
    /\ pkg_exit = NoExit /\ pkg_summary = NoSummary
IntakeIdle ==
    /\ pc = "idle" /\ file = [kind |-> "unreadable", value |-> Null]
    /\ strict_guardrails = FALSE /\ cfg = Null /\ errors = <<>> /\ warnings = <<>>
    /\ calls = <<>> /\ exitCode = NoExit /\ summary = NoSummary

Init ==
    /\ CheckersIdle /\ RenderIdle /\ PackageIdle
    /\ pc = "load"
    /\ file \in Files
    /\ strict_guardrails \in BOOLEAN
    /\ cfg = Null
    /\ errors = <<>>
    /\ warnings = <<>>
    /\ calls = <<>>
    /\ exitCode = NoExit
    /\ summary = NoSummary

\* LoadFails going on with an empty configuration instead of returning
LoadFailsAsEmpty ==
    /\ pc = "load"
    /\ file.kind # "json"
    /\ cfg' = JObj(<<>>)
    /\ pc' = "check_root"
    /\ UNCHANGED <<file, strict_guardrails, errors, warnings, calls, exitCode, summary>>
    /\ UNCHANGED <<checkerVars, renderVars, packageVars>>

\* load_json raises: "ERROR: failed to read JSON", return 1
LoadFails ==
    /\ pc = "load"
    /\ file.kind # "json"
    /\ summary' = [line |-> "failed to read JSON", errors |-> 0, warnings |-> 0]
    /\ exitCode' = 1
    /\ pc' = "done"
    /\ UNCHANGED <<file, strict_guardrails, cfg, errors, warnings, calls>>
    /\ UNCHANGED <<checkerVars, renderVars, packageVars>>

LoadOk ==
    /\ pc = "load"
    /\ file.kind = "json"
    /\ cfg' = file.value
    /\ pc' = "check_root"
    /\ UNCHANGED <<file, strict_guardrails, errors, warnings, calls, exitCode, summary>>
    /\ UNCHANGED <<checkerVars, renderVars, packageVars>>

\* "ERROR: config must be a top-level JSON object", return 1
RejectRoot ==
    /\ pc = "check_root"
    /\ ~IsDict(cfg)
    /\ summary' = [line |-> "config must be a top-level JSON object",
                   errors |-> 0, warnings |-> 0]
    /\ exitCode' = 1
    /\ pc' = "done"
    /\ UNCHANGED <<file, strict_guardrails, cfg, errors, warnings, calls>>
    /\ UNCHANGED <<checkerVars, renderVars, packageVars>>

AcceptRoot ==
    /\ pc = "check_root"
    /\ IsDict(cfg)
    /\ errors' = <<>>
    /\ warnings' = <<>>
    /\ pc' = "validate_guardrails"
    /\ UNCHANGED <<file, strict_guardrails, cfg, calls, exitCode, summary>>
    /\ UNCHANGED <<checkerVars, renderVars, packageVars>>

\* a call of a section validator from main(): the lists become what the
\* validator left, and an exception leaves main()
CallValidator(fn, r, next) ==
    /\ pc = fn
    /\ errors' = r.e
    /\ warnings' = r.w
    /\ calls' = Append(calls, Call(fn, Added(errors, r.e), Added(warnings, r.w)))
    /\ pc' = IF r.raised THEN "raised" ELSE next
    /\ UNCHANGED <<file, strict_guardrails, cfg, exitCode, summary>>
    /\ UNCHANGED <<checkerVars, renderVars, packageVars>>

CallValidateGuardrails ==
    CallValidator("validate_guardrails",
                  Returned(validate_guardrails(cfg, errors), warnings),
                  "validate_project")

CallValidateProject ==
    CallValidator("validate_project", validate_project(cfg, errors, warnings),
                  "validate_scope")

CallValidateScope ==
    CallValidator("validate_scope", validate_scope(cfg, errors, warnings),
                  "validate_capture")

CallValidateCapture ==
    CallValidator("validate_capture", validate_capture(cfg, errors, warnings),
                  "validate_quality")

CallValidateQuality ==
    CallValidator("validate_quality", validate_quality(cfg, errors, warnings),
                  "validate_output")

CallValidateOutput ==
    CallValidator("validate_output",
                  Returned(errors, validate_output(cfg, warnings)),
                  "strict")

StrictPass ==
    /\ pc = "strict"
    /\ strict_guardrails
    /\ errors' = strict_pass(cfg, errors)
    /\ calls' = Append(calls, Call("strict", Added(errors, errors'), <<>>))
    /\ pc' = "report"
    /\ UNCHANGED <<file, strict_guardrails, cfg, warnings, exitCode, summary>>
    /\ UNCHANGED <<checkerVars, renderVars, packageVars>>

SkipStrict ==
    /\ pc = "strict"
    /\ ~strict_guardrails
    /\ pc' = "report"
    /\ UNCHANGED <<file, strict_guardrails, cfg, errors, warnings, calls, exitCode, summary>>
    /\ UNCHANGED <<checkerVars, renderVars, packageVars>>

\* exit_code with warnings blocking acceptance as errors do
exit_code_warnings_block(errs, warns) == IF errs # <<>> \/ warns # <<>> THEN 1 ELSE 0

\* lines 259-269: print the findings, the summary line, return
exit_code(errs, warns) == IF errs # <<>> THEN 1 ELSE 0

summary_line(errs, warns) ==
    IF errs # <<>>
    THEN [line |-> "Config validation failed", errors |-> Len(errs), warnings |-> Len(warns)]
    ELSE [line |-> "Config validation passed", errors |-> 0, warnings |-> Len(warns)]

Report ==
    /\ pc = "report"
    /\ summary' = summary_line(errors, warnings)
    /\ exitCode' = exit_code(errors, warnings)
    /\ pc' = "done"
    /\ UNCHANGED <<file, strict_guardrails, cfg, errors, warnings, calls>>
    /\ UNCHANGED <<checkerVars, renderVars, packageVars>>

Next ==
    \/ LoadFails
    \/ LoadOk
    \/ RejectRoot
    \/ AcceptRoot
    \/ CallValidateGuardrails
    \/ CallValidateProject
    \/ CallValidateScope
    \/ CallValidateCapture
    \/ CallValidateQuality
    \/ CallValidateOutput
    \/ StrictPass
    \/ SkipStrict
    \/ Report

Spec == Init /\ [][Next]_vars

(* ------------------------------ claims -------------------------------- *)

\* the call of fn recorded in calls
Called(fn) == \E i \in 1..Len(calls) : calls[i].fn = fn
CallOf(fn) == calls[CHOOSE i \in 1..Len(calls) : calls[i].fn = fn]
Names == [i \in 1..Len(calls) |-> calls[i].fn]

Has(list, path, message) == \E i \in 1..Len(list) : list[i] = Finding(path, message)
AtPath(list, path) == \E i \in 1..Len(list) : list[i].path = path

VALIDATORS ==
    <<"validate_guardrails", "validate_project", "validate_scope", "validate_capture",
      "validate_quality", "validate_output">>

\* what a step of main() appends when it starts from empty lists
Outcome(fn, config) ==
    CASE fn = "validate_guardrails" -> Returned(validate_guardrails(config, <<>>), <<>>)
      [] fn = "validate_project" -> validate_project(config, <<>>, <<>>)
      [] fn = "validate_scope" -> validate_scope(config, <<>>, <<>>)
      [] fn = "validate_capture" -> validate_capture(config, <<>>, <<>>)
      [] fn = "validate_quality" -> validate_quality(config, <<>>, <<>>)
      [] fn = "validate_output" -> Returned(<<>>, validate_output(config, <<>>))
      [] fn = "strict" -> Returned(strict_pass(config, <<>>), <<>>)

\* C1: whenever main() returns for a configuration that is an object, all
\* six validators (and the strict pass when requested) have run, the exit
\* code is 1 exactly when the error list is non-empty, whatever the number
\* of warnings, and on exit code 0 the summary line is "Config validation
\* passed" with the number of warnings.
C1_ExitIffErrors ==
    (pc = "done" /\ IsDict(cfg)) =>
        /\ Len(calls) = IF strict_guardrails THEN 7 ELSE 6
        /\ exitCode \in {0, 1}
        /\ exitCode = 1 <=> errors # <<>>
        /\ exitCode = 0 =>
             summary = [line |-> "Config validation passed", errors |-> 0,
                        warnings |-> Len(warnings)]

\* a run accepted although it gave warnings
C1_AcceptedWithWarnings ==
    pc = "done" /\ IsDict(cfg) /\ exitCode = 0 /\ Len(warnings) > 0

TrueTrueFalse ==
    JObj([public_access_confirmed |-> JBool(TRUE),
          non_clone_intent_confirmed |-> JBool(TRUE),
          asset_rights_warning_confirmed |-> JBool(FALSE)])

ConfirmationKeys == {CONFIRMATION_KEYS[i] : i \in 1..Len(CONFIRMATION_KEYS)}

Confirmed(guardrails, key) ==
    key \in DOMAIN guardrails.f /\ guardrails.f[key] = JBool(TRUE)

\* C2: with --strict-guardrails the strict pass runs and appends the one
\* error "guardrails: required ..." when guardrails is not an object, and
\* otherwise exactly one error "guardrails.<key>: must be true before
\* crawling" for each confirmation key that is missing or not exactly true;
\* a strict run that is accepted has all three keys exactly true; for
\* guardrails = {true, true, false} the strict pass appends exactly the one
\* error of the false key, and without the flag the same configuration has
\* no error under guardrails.
C2_StrictPass ==
    LET guardrails == Get(cfg, "guardrails") IN
    /\ (pc = "done" /\ IsDict(cfg) /\ strict_guardrails) => Called("strict")
    /\ Called("strict") =>
         LET added == CallOf("strict").e IN
         /\ strict_guardrails
         /\ ~IsDict(guardrails) =>
              added = <<Finding(<<"guardrails">>, "required when --strict-guardrails is set")>>
         /\ IsDict(guardrails) =>
              /\ Len(added) =
                   Cardinality({k \in ConfirmationKeys : ~Confirmed(guardrails, k)})
              /\ \A k \in ConfirmationKeys :
                   ~Confirmed(guardrails, k) <=>
                     Has(added, <<"guardrails", k>>, "must be true before crawling")
         /\ guardrails = TrueTrueFalse =>
              added = <<Finding(<<"guardrails", "asset_rights_warning_confirmed">>,
                                "must be true before crawling")>>
    /\ (pc = "done" /\ strict_guardrails /\ exitCode = 0) =>
         /\ IsDict(guardrails)
         /\ \A k \in ConfirmationKeys : Confirmed(guardrails, k)
    /\ (pc = "done" /\ IsDict(cfg) /\ ~strict_guardrails /\ guardrails = TrueTrueFalse) =>
         \A i \in 1..Len(errors) : errors[i].path[1] # "guardrails"

\* the strict pass has run on guardrails = {true, true, false}
C2_StrictOnTrueTrueFalse ==
    pc = "done" /\ Called("strict") /\ Get(cfg, "guardrails") = TrueTrueFalse
    /\ Len(CallOf("strict").e) = 1

\* C3: for a configuration that is an object, no section validator raises
\* an exception, whatever JSON value a field holds.
C3_NoValidatorRaises == IsDict(cfg) => pc # "raised"

\* C4: in every run on an object configuration the calls are the six
\* validators in the order guardrails, project, scope, capture, quality,
\* output, each once, then the strict pass; when the run has ended all six
\* have been called, and the errors of the strict pass are the tail of the
\* error list.
C4_EachOnceInOrder ==
    IsDict(cfg) =>
        /\ Len(Names) <= 7
        /\ Names = SubSeq(VALIDATORS \o <<"strict">>, 1, Len(Names))
        /\ pc \in {"report", "done", "raised"} => Len(Names) >= 6
        /\ Called("strict") =>
             /\ Len(Names) = 7
             /\ CallOf("strict").e =
                  SubSeq(errors, Len(errors) - Len(CallOf("strict").e) + 1, Len(errors))

BadFile == file.kind # "json" \/ ~IsDict(file.value)

\* C5: when the load fails or the root is not an object, main() returns 1
\* with the fatal message, no validator and no strict pass is ever called,
\* and the error and warning lists stay empty.
C5_FatalLoad ==
    BadFile =>
        /\ calls = <<>> /\ errors = <<>> /\ warnings = <<>>
        /\ pc \in {"load", "check_root", "done"}
        /\ pc = "done" =>
             /\ exitCode = 1
             /\ summary.line = IF file.kind # "json" THEN "failed to read JSON"
                               ELSE "config must be a top-level JSON object"

\* main() has returned on a root that is a list
C5_ListRootRejected ==
    pc = "done" /\ file.kind = "json" /\ IsList(file.value) /\ exitCode = 1

\* the value Python takes for "present and non-empty": the key is there and
\* its value is not None, false, 0, "", [] or {}
PresentNonEmpty(obj, key) == key \in DOMAIN obj.f /\ Truthy(obj.f[key])

\* C6: once validate_scope has been called on a scope object: in mode
\* custom_urls there is an error at scope.custom_urls unless custom_urls is
\* a non-empty list of http(s) URLs; in any other mode a present non-empty
\* custom_urls gives a warning there and no error; in mode sitemap a
\* sitemap_url that is not an http(s) URL is an error at scope.sitemap_url;
\* in any other mode a present non-empty sitemap_url gives a warning there
\* and no error.
C6_ConditionalScopeRules ==
    (IsDict(cfg) /\ IsDict(Get(cfg, "scope")) /\ Called("validate_scope")) =>
        LET scope == Get(cfg, "scope")
            crawl_mode == Get(scope, "crawl_mode")
            urls == Get(scope, "custom_urls")
            sitemap_url == Get(scope, "sitemap_url")
            found == CallOf("validate_scope")
        IN  /\ crawl_mode = Word("custom_urls") =>
                 (AtPath(found.e, <<"scope", "custom_urls">>) <=>
                    ~(IsList(urls) /\ urls.items # <<>> /\ AllHttp(urls.items)))
            /\ (crawl_mode # Word("custom_urls") /\ PresentNonEmpty(scope, "custom_urls")) =>
                 /\ AtPath(found.w, <<"scope", "custom_urls">>)
                 /\ ~AtPath(found.e, <<"scope", "custom_urls">>)
            /\ crawl_mode = Word("sitemap") =>
                 (AtPath(found.e, <<"scope", "sitemap_url">>) <=> ~is_http_url(sitemap_url))
            /\ (crawl_mode # Word("sitemap") /\ PresentNonEmpty(scope, "sitemap_url")) =>
                 /\ AtPath(found.w, <<"scope", "sitemap_url">>)
                 /\ ~AtPath(found.e, <<"scope", "sitemap_url">>)

\* validate_capture has been called on a capture object whose screenshots
\* is an object
ScreenshotsChecked ==
    /\ IsDict(cfg) /\ IsDict(Get(cfg, "capture"))
    /\ IsDict(Get(Get(cfg, "capture"), "screenshots"))
    /\ Called("validate_capture")

Screenshots == Get(Get(cfg, "capture"), "screenshots")

\* the part of C7 about screenshots.desktop: the error "must be true
\* (required)" is at capture.screenshots.desktop exactly when desktop is not
\* the boolean true, there is no error at that path when it is true, and a
\* run that returns with desktop not true returns 1
DesktopRequiredTrue ==
    LET found == CallOf("validate_capture") IN
    /\ ~IsTrue(Get(Screenshots, "desktop")) <=>
         Has(found.e, <<"capture", "screenshots", "desktop">>, "must be true (required)")
    /\ IsTrue(Get(Screenshots, "desktop")) =>
         ~AtPath(found.e, <<"capture", "screenshots", "desktop">>)
    /\ (pc = "done" /\ ~IsTrue(Get(Screenshots, "desktop"))) => exitCode = 1

\* C7 as stated: desktop must be exactly true, and a screenshots.mobile
\* that is not true gives a warning at capture.screenshots.mobile and no
\* error there.
C7_MobileNeverAnError ==
    ScreenshotsChecked =>
        LET found == CallOf("validate_capture") IN
        /\ DesktopRequiredTrue
        /\ ~IsTrue(Get(Screenshots, "mobile")) =>
             /\ AtPath(found.w, <<"capture", "screenshots", "mobile">>)
             /\ ~AtPath(found.e, <<"capture", "screenshots", "mobile">>)

\* C7 as amended: desktop must be exactly true; a screenshots.mobile that
\* is not true gives the warning at capture.screenshots.mobile, with no
\* error there when mobile is false or absent, and with the one error "must
\* be boolean" there when mobile is present and not a boolean.
C7_DesktopErrorMobileWarning ==
    ScreenshotsChecked =>
        LET found == CallOf("validate_capture")
            mobile == Get(Screenshots, "mobile")
        IN  /\ DesktopRequiredTrue
            /\ ~IsTrue(mobile) <=>
                 Has(found.w, <<"capture", "screenshots", "mobile">>,
                     "recommended true for better visual hierarchy coverage")
            /\ AtPath(found.e, <<"capture", "screenshots", "mobile">>) <=>
                 ("mobile" \in DOMAIN Screenshots.f /\ ~IsBool(mobile))
            /\ \A i \in 1..Len(found.e) :
                 found.e[i].path = <<"capture", "screenshots", "mobile">> =>
                   found.e[i].msg = "must be boolean"

\* a run rejected on an empty screenshots object: desktop and mobile absent
C7_EmptyScreenshotsRejected ==
    /\ ScreenshotsChecked /\ pc = "done" /\ exitCode = 1
    /\ Screenshots = JObj(<<>>)
    /\ AtPath(CallOf("validate_capture").w, <<"capture", "screenshots", "mobile">>)

ThresholdPath == <<"quality", "canonical_token_confidence_threshold">>

\* C8: once validate_quality has been called on a quality object, the error
\* "must be <= 1" is at the threshold exactly when it is a number greater
\* than 1, the warning "below recommended default 0.70" exactly when it is a
\* number below 0.7, a number from 0.7 to 1 inclusive has neither, and no
\* value has both.
C8_ThresholdChecksExclusive ==
    (IsDict(cfg) /\ IsDict(Get(cfg, "quality")) /\ Called("validate_quality")) =>
        LET threshold == Get(Get(cfg, "quality"), "canonical_token_confidence_threshold")
            found == CallOf("validate_quality")
            over == Has(found.e, ThresholdPath, "must be <= 1")
            under == Has(found.w, ThresholdPath, "below recommended default 0.70")
            numeric == threshold.t \in {"int", "float"}
        IN  /\ over <=> (numeric /\ Tenths(threshold) > 10)
            /\ under <=> (numeric /\ Tenths(threshold) < 7)
            /\ (numeric /\ Tenths(threshold) >= 7 /\ Tenths(threshold) <= 10) =>
                 (~over /\ ~under)
            /\ ~(over /\ under)

\* validate_quality has reported the threshold 1.2 as over the range
C8_OverRangeReported ==
    /\ IsDict(cfg) /\ IsDict(Get(cfg, "quality")) /\ Called("validate_quality")
    /\ Get(Get(cfg, "quality"), "canonical_token_confidence_threshold") = JFloat(12)
    /\ Has(CallOf("validate_quality").e, ThresholdPath, "must be <= 1")

SectionValidator ==
    [project |-> "validate_project", scope |-> "validate_scope",
     capture |-> "validate_capture", quality |-> "validate_quality"]

\* config with the section sec of the base configuration b put in
WithSection(config, sec, b) == SetPath(config, <<sec>>, b.f[sec])

\* the base pass reports no error on config
ErrorFree(config) ==
    \A i \in 1..Len(VALIDATORS) :
        /\ ~Outcome(VALIDATORS[i], config).raised
        /\ Outcome(VALIDATORS[i], config).e = <<>>

\* config lacks the section sec and is valid once the section is put in
MissingOnly(config, sec) ==
    /\ IsDict(config) /\ sec \notin DOMAIN config.f
    /\ \E b \in BaseCfgs : ErrorFree(WithSection(config, sec, b))

\* C9: when one required section is missing from a configuration that is
\* otherwise valid, no validator raises, the validator of the section
\* appends the one error "<section>: missing required object" and nothing
\* else, and every other step appends what it appends when the section is
\* present.
C9_MissingSection ==
    \A sec \in REQUIRED_SECTIONS :
        MissingOnly(cfg, sec) =>
            /\ pc # "raised"
            /\ \A i \in 1..Len(calls) :
                 IF calls[i].fn = SectionValidator[sec]
                 THEN /\ calls[i].e = <<Finding(<<sec>>, "missing required object")>>
                      /\ calls[i].w = <<>>
                 ELSE \A b \in BaseCfgs :
                        ErrorFree(WithSection(cfg, sec, b)) =>
                          /\ calls[i].e = Outcome(calls[i].fn, WithSection(cfg, sec, b)).e
                          /\ calls[i].w = Outcome(calls[i].fn, WithSection(cfg, sec, b)).w

\* a run has returned on a configuration that lacks only the capture
\* section and that has a warning from another section
C9_CaptureMissing ==
    /\ pc = "done" /\ MissingOnly(cfg, "capture")
    /\ Len(warnings) > 0 /\ Len(errors) = 1

\* dotted traversal from v along path reaches a value
RECURSIVE Resolves(_, _)
Resolves(v, path) ==
    IF path = <<>> THEN TRUE
    ELSE IsDict(v) /\ Head(path) \in DOMAIN v.f /\ Resolves(v.f[Head(path)], Tail(path))

\* dotted traversal from v along all segments of path but the last reaches
\* an object
ParentResolves(v, path) ==
    /\ path # <<>>
    /\ Resolves(v, SubSeq(path, 1, Len(path) - 1))
    /\ IsDict(IF Len(path) = 1 THEN v
              ELSE LET RECURSIVE At(_, _)
                       At(w, p) == IF p = <<>> THEN w ELSE At(w.f[Head(p)], Tail(p))
                   IN  At(v, SubSeq(path, 1, Len(path) - 1)))

\* C10 as stated: the path of every error and every warning resolves by
\* dotted traversal from the root of the configuration.
C10_PathsResolve ==
    /\ \A i \in 1..Len(errors) : Resolves(cfg, errors[i].path)
    /\ \A i \in 1..Len(warnings) : Resolves(cfg, warnings[i].path)

\* C10 as amended: the path of every error and every warning names a key of
\* an object of the configuration: its segments but the last resolve by
\* dotted traversal from the root to an object (the last segment may be a
\* key that object lacks).
C10_ParentsResolve ==
    /\ \A i \in 1..Len(errors) : ParentResolves(cfg, errors[i].path)
    /\ \A i \in 1..Len(warnings) : ParentResolves(cfg, warnings[i].path)

\* a run has returned with an error at a path of three segments that does
\* not resolve
C10_MissingLeafReported ==
    /\ pc = "done"
    /\ \E i \in 1..Len(errors) :
         Len(errors[i].path) = 3 /\ ~Resolves(cfg, errors[i].path)

(* ------------------- the primitive checkers on their own -------------- *)

NumberCall(key, path, minimum, integer) ==
    [fn |-> "expect_number", key |-> key, path |-> path, minimum |-> minimum,
     integer |-> integer]

BoolCall(key, path) ==
    [fn |-> "expect_bool", key |-> key, path |-> path, minimum |-> Null, integer |-> FALSE]

\* the calls of expect_number in validate_scope and validate_quality
NUMBER_CALLS ==
    {NumberCall("max_pages", <<"scope">>, JInt(1), TRUE),
     NumberCall("max_depth", <<"scope">>, JInt(0), TRUE),
     NumberCall("crawl_delay_ms", <<"scope">>, JInt(0), TRUE),
     NumberCall("requests_per_second", <<"scope">>, JFloat(1), FALSE),
     NumberCall("canonical_token_confidence_threshold", <<"quality">>, JFloat(0), FALSE)}

\* the calls of expect_bool in validate_scope, validate_capture, validate_quality
BOOL_CALLS ==
    {BoolCall("include_subdomains", <<"scope">>), BoolCall("respect_robots_txt", <<"scope">>)}
    \cup {BoolCall(CAPTURE_BOOL_KEYS[i], <<"capture">>) : i \in 1..Len(CAPTURE_BOOL_KEYS)}
    \cup {BoolCall(QUALITY_BOOL_KEYS[i], <<"quality">>) : i \in 1..Len(QUALITY_BOOL_KEYS)}

\* the objects a checker is given for a key: without the key, or with the
\* key at any JSON value
ObjectsFor(key) == {JObj(<<>>)} \cup {SetPath(JObj(<<>>), <<key>>, v) : v \in JsonValues}

\* the errors list as a checker finds it
PriorErrors == {<<>>, <<Finding(<<"mode">>, "must equal 'brand_faithful_modernization'")>>}

CallsOn(c) ==
    {[fn |-> c.fn, key |-> c.key, path |-> c.path, minimum |-> c.minimum,
      integer |-> c.integer, obj |-> o, errs |-> e] :
        o \in ObjectsFor(c.key), e \in PriorErrors}

CheckerCalls == UNION {CallsOn(c) : c \in NUMBER_CALLS \cup BOOL_CALLS}

InitCheckers ==
    /\ IntakeIdle /\ RenderIdle /\ PackageIdle
    /\ chk_pc = "call"
    /\ chk_call \in CheckerCalls
    /\ chk_errors = chk_call.errs

CallExpectNumber ==
    /\ chk_pc = "call"
    /\ chk_call.fn = "expect_number"
    /\ chk_errors' = expect_number(chk_call.obj, chk_call.key, chk_call.path, chk_errors,
                                   chk_call.minimum, chk_call.integer)
    /\ chk_pc' = "returned"
    /\ UNCHANGED <<chk_call, intakeVars, renderVars, packageVars>>

CallExpectBool ==
    /\ chk_pc = "call"
    /\ chk_call.fn = "expect_bool"
    /\ chk_errors' = expect_bool(chk_call.obj, chk_call.key, chk_call.path, chk_errors)
    /\ chk_pc' = "returned"
    /\ UNCHANGED <<chk_call, intakeVars, renderVars, packageVars>>

NextCheckers == CallExpectNumber \/ CallExpectBool

SpecCheckers == InitCheckers /\ [][NextCheckers]_vars

\* C13: a checker call leaves the errors it was given in place and appends
\* at most one finding, at <path>.<key>; expect_number with integer=True
\* (scope.max_pages, scope.max_depth, scope.crawl_delay_ms) appends exactly
\* the one error "must be a number" for a float; expect_number, integer or
\* not, appends an error for a boolean; expect_bool appends the error "must
\* be boolean" for an int or a float, 0 and 1 included.
C13_StrictTypes ==
    chk_pc = "returned" =>
        LET c == chk_call
            field == Append(c.path, c.key)
            added == Added(c.errs, chk_errors)
            present == c.key \in DOMAIN c.obj.f
            value == c.obj.f[c.key]
        IN  /\ Len(chk_errors) >= Len(c.errs)
            /\ SubSeq(chk_errors, 1, Len(c.errs)) = c.errs
            /\ Len(added) <= 1
            /\ \A i \in 1..Len(added) : added[i].path = field
            /\ (c.fn = "expect_number" /\ c.integer /\ present /\ value.t = "float") =>
                 added = <<Finding(field, "must be a number")>>
            /\ (c.fn = "expect_number" /\ present /\ IsBool(value)) =>
                 added = <<Finding(field, "must be a number")>>
            /\ (c.fn = "expect_bool" /\ present /\ value.t \in {"int", "float"}) =>
                 added = <<Finding(field, "must be boolean")>>

\* expect_number has returned from the call for scope.max_pages = 0.5
C13_FloatMaxPages ==
    /\ chk_pc = "returned"
    /\ chk_call.fn = "expect_number" /\ chk_call.key = "max_pages" /\ chk_call.integer
    /\ chk_call.obj = JObj([max_pages |-> JFloat(5)])
    /\ Len(chk_errors) = Len(chk_call.errs) + 1

(* --------------------------- render_run_plan -------------------------- *)

\* the decimal digits of a natural number, most significant first
RECURSIVE Digits(_)
Digits(n) == IF n < 10 THEN <<ToString(n)>> ELSE Append(Digits(n \div 10), ToString(n % 10))

\* str(v) of a JSON scalar, as the sequence of its lexemes
PyStr(v) ==
    CASE v.t = "str" -> v.s
      [] v.t = "null" -> <<"None">>
      [] v.t = "bool" -> IF v.b THEN <<"True">> ELSE <<"False">>
      [] v.t = "int" -> IF v.v < 0 THEN <<"-">> \o Digits(-v.v) ELSE Digits(v.v)
      [] v.t = "float" ->
           LET a == IF v.v < 0 THEN -v.v ELSE v.v
           IN  (IF v.v < 0 THEN <<"-">> ELSE <<>>)
               \o Digits(a \div 10) \o <<".">> \o Digits(a % 10)

\* [str(u) for u in items]
StrEach(items) == [i \in 1..Len(items) |-> PyStr(items[i])]

\* [str(p.get("url")) for p in pages if isinstance(p, dict) and p.get("url")]
RECURSIVE PageUrls(_)
PageUrls(pages) ==
    IF pages = <<>> THEN <<>>
    ELSE LET p == Head(pages) IN
         IF IsDict(p) /\ Truthy(Get(p, "url"))
         THEN <<PyStr(Get(p, "url"))>> \o PageUrls(Tail(pages))
         ELSE PageUrls(Tail(pages))

UrlsReturned(list) == [raised |-> FALSE, urls |-> list]
ValueError == [raised |-> TRUE, urls |-> <<>>]

\* normalize_urls with the final raise lost: any other input gives no URLs
normalize_urls_no_raise(url_data) ==
    IF url_data = Null THEN UrlsReturned(<<>>)
    ELSE IF IsList(url_data) THEN UrlsReturned(StrEach(url_data.items))
    ELSE IF IsDict(url_data) /\ IsList(Get(url_data, "urls"))
         THEN UrlsReturned(StrEach(Get(url_data, "urls").items))
    ELSE IF IsDict(url_data) /\ IsList(Get(url_data, "pages"))
         THEN UrlsReturned(PageUrls(Get(url_data, "pages").items))
    ELSE UrlsReturned(<<>>)

normalize_urls(url_data) ==
    IF url_data = Null THEN UrlsReturned(<<>>)
    ELSE IF IsList(url_data) THEN UrlsReturned(StrEach(url_data.items))
    ELSE IF IsDict(url_data) /\ IsList(Get(url_data, "urls"))
         THEN UrlsReturned(StrEach(Get(url_data, "urls").items))
    ELSE IF IsDict(url_data) /\ IsList(Get(url_data, "pages"))
         THEN UrlsReturned(PageUrls(Get(url_data, "pages").items))
    ELSE ValueError

\* the entries of a pages list
PageItems ==
    {JObj([url |-> JStr(<<"http://", "a">>)]), JObj([url |-> JStr(<<>>)]),
     JObj([url |-> JInt(1)]), JObj([url |-> Null]), JObj(<<>>),
     JObj([title |-> Word("x")]), JInt(1), Word("x")}

PagesLists == UNION {[1..n -> PageItems] : n \in 0..MaxListLen}

\* the scalars a list of URLs holds
UrlItems == {JStr(<<"http://", "a">>), Word("x"), JInt(1), JFloat(5), JBool(TRUE), Null}

UrlLists == UNION {[1..n -> UrlItems] : n \in 0..MaxListLen}

\* values of urls and pages that are not lists
NotLists == {Null, JBool(TRUE), JInt(1), Word("x"), JObj(<<>>)}

\* the JSON values found in the file args.urls_json names
UrlInputs ==
    {v \in JsonValues : ~IsList(v)}
    \cup {JList(l) : l \in UrlLists}
    \cup {JObj([urls |-> JList(l)]) : l \in UrlLists}
    \cup {JObj([urls |-> v]) : v \in NotLists}
    \cup {JObj([pages |-> JList(l)]) : l \in PagesLists}
    \cup {JObj([pages |-> v]) : v \in NotLists}
    \cup {JObj([urls |-> v, pages |-> JList(l)]) : v \in NotLists, l \in PagesLists}
    \cup {JObj([urls |-> JList(<<Word("x")>>), pages |-> w]) :
            w \in NotLists \cup {JList(<<JObj([url |-> JStr(<<"http://", "a">>)])>>)}}

InitRender ==
    /\ IntakeIdle /\ CheckersIdle /\ PackageIdle
    /\ rp_pc = "urls"
    /\ urls_json \in UrlInputs \cup {NoUrlsArg}
    /\ rp_urls = <<>>

\* line 160 without --urls-json: urls = []
NoUrlsJson ==
    /\ rp_pc = "urls"
    /\ urls_json = NoUrlsArg
    /\ rp_urls' = <<>>
    /\ rp_pc' = "render"
    /\ UNCHANGED <<urls_json, intakeVars, checkerVars, packageVars>>

\* line 160 with --urls-json: normalize_urls returns the list
NormalizeReturns ==
    /\ rp_pc = "urls"
    /\ urls_json # NoUrlsArg
    /\ ~normalize_urls(urls_json).raised
    /\ rp_urls' = normalize_urls(urls_json).urls
    /\ rp_pc' = "render"
    /\ UNCHANGED <<urls_json, intakeVars, checkerVars, packageVars>>

\* line 160 with --urls-json: normalize_urls raises ValueError, which
\* leaves main()
NormalizeRaises ==
    /\ rp_pc = "urls"
    /\ urls_json # NoUrlsArg
    /\ normalize_urls(urls_json).raised
    /\ rp_pc' = "raised"
    /\ UNCHANGED <<urls_json, rp_urls, intakeVars, checkerVars, packageVars>>

NextRender == NoUrlsJson \/ NormalizeReturns \/ NormalizeRaises

SpecRender == InitRender /\ [][NextRender]_vars

\* normalize_urls has been called on the value of the URL file
Normalized == rp_pc \in {"render", "raised"} /\ urls_json # NoUrlsArg

\* an object whose pages is a list of records with a url
PagesOfRecords(v) ==
    /\ IsDict(v) /\ IsList(Get(v, "pages"))
    /\ \A i \in 1..Len(Get(v, "pages").items) :
         /\ IsDict(Get(v, "pages").items[i])
         /\ "url" \in DOMAIN Get(v, "pages").items[i].f

\* C12 as stated: normalize_urls returns a list exactly for a list, an
\* object whose urls is a list, and an object whose pages is a list of
\* records with a url; every other JSON value raises ValueError.
C12_ThreeShapes ==
    Normalized =>
        (rp_pc = "render" <=>
           \/ IsList(urls_json)
           \/ IsDict(urls_json) /\ IsList(Get(urls_json, "urls"))
           \/ PagesOfRecords(urls_json))

\* the records of a pages list that have a non-empty url
WithUrl(pages) == {i \in 1..Len(pages) : IsDict(pages[i]) /\ Truthy(Get(pages[i], "url"))}

\* C12 as amended: normalize_urls returns a list exactly for null (the
\* empty list), a list (one string per entry), an object whose urls is a
\* list (one string per entry) and an object whose urls is not a list and
\* whose pages is a list (one string per entry that is a record with a
\* non-empty url, the other entries skipped); every other JSON value raises
\* ValueError and gives no URL list.
C12_FourShapes ==
    Normalized =>
        /\ rp_pc = "render" <=>
             \/ urls_json = Null
             \/ IsList(urls_json)
             \/ IsDict(urls_json) /\ IsList(Get(urls_json, "urls"))
             \/ IsDict(urls_json) /\ IsList(Get(urls_json, "pages"))
        /\ rp_pc = "raised" => rp_urls = <<>>
        /\ (rp_pc = "render" /\ urls_json = Null) => rp_urls = <<>>
        /\ (rp_pc = "render" /\ IsList(urls_json)) =>
             /\ Len(rp_urls) = Len(urls_json.items)
             /\ \A i \in 1..Len(rp_urls) :
                  IsStr(urls_json.items[i]) => rp_urls[i] = urls_json.items[i].s
        /\ (rp_pc = "render" /\ IsDict(urls_json) /\ IsList(Get(urls_json, "urls"))) =>
             Len(rp_urls) = Len(Get(urls_json, "urls").items)
        /\ (rp_pc = "render" /\ IsDict(urls_json) /\ ~IsList(Get(urls_json, "urls"))) =>
             Len(rp_urls) = Cardinality(WithUrl(Get(urls_json, "pages").items))

\* normalize_urls has returned one URL for a pages list of two entries, one
\* of them not a record
C12_PagesEntrySkipped ==
    /\ Normalized /\ rp_pc = "render"
    /\ IsDict(urls_json) /\ IsList(Get(urls_json, "pages"))
    /\ Len(Get(urls_json, "pages").items) = 2
    /\ ~PagesOfRecords(urls_json)
    /\ Len(rp_urls) = 1

(* ----------------------- validate_output_package ---------------------- *)

REQUIRED_PATHS ==
    <<"reports/executive-summary.md",
      "reports/source-audit.md",
      "reports/brand-dna.md",
      "reports/accessibility-audit.md",
      "reports/preserve-normalize-improve-exclude.md",
      "tokens/tokens.json",
      "tokens/tokens.css",
      "tokens/tailwind.theme.js",
      "components/component-library-spec.md",
      "components/component-contracts.json",
      "patterns/page-template-patterns.md",
      "evidence/crawl-manifest.json",
      "evidence/page-weights.json",
      "evidence/extraction-confidence.json">>

RequiredPaths == {REQUIRED_PATHS[i] : i \in 1..Len(REQUIRED_PATHS)}

\* a path under the root: nothing there; something that exists and whose
\* read_text raises (a directory, bytes that are not UTF-8); a text file.
\* A text is the serialisation of a JSON value or prose, the sequence of its
\* lexemes.
MissingFile == [exists |-> FALSE, readable |-> FALSE, json |-> FALSE, value |-> Null, words |-> <<>>]
UnreadableFile == [exists |-> TRUE, readable |-> FALSE, json |-> FALSE, value |-> Null, words |-> <<>>]
JsonText(v) == [exists |-> TRUE, readable |-> TRUE, json |-> TRUE, value |-> v, words |-> <<>>]
Prose(w) == [exists |-> TRUE, readable |-> TRUE, json |-> FALSE, value |-> Null, words |-> w]

\* parse_json: (data, None), or (None, str(exc)) when read_text or json.loads
\* raises; err "" stands for None
parse_json(f) ==
    IF ~f.readable THEN [data |-> Null, err |-> "read error"]
    ELSE IF ~f.json THEN [data |-> Null, err |-> "Expecting value"]
    ELSE [data |-> f.value, err |-> ""]

PkgFinding(path, message, detail) == [file |-> path, msg |-> message, detail |-> detail]

\* [k for k in keys if k not in obj]
RECURSIVE MissingKeys(_, _)
MissingKeys(obj, keys) ==
    IF keys = <<>> THEN <<>>
    ELSE IF Head(keys) \in DOMAIN obj.f THEN MissingKeys(obj, Tail(keys))
         ELSE <<Head(keys)>> \o MissingKeys(obj, Tail(keys))

require_keys(obj, keys, path, errs) ==
    IF MissingKeys(obj, keys) # <<>>
    THEN Append(errs, PkgFinding(path, "missing keys", MissingKeys(obj, keys)))
    ELSE errs

EXPECTED_TOP ==
    <<"color", "typography", "spacing", "radius", "shadow", "border", "motion", "layout">>
MANIFEST_KEYS == <<"source_url", "crawl_mode", "pages">>
PAGE_WEIGHTS_KEYS == <<"clusters", "pages">>
CONFIDENCE_KEYS == <<"threshold">>
EXPECTED_TERMS == <<"Preserve", "Normalize", "Improve", "Exclude">>
NON_DERIVATIVE_MARKERS == <<"not a clone", "brand-faithful", "normalize", "must not be copied">>

\* str.lower() of a lexeme
LowerLexeme(w) ==
    CASE w = "Normalize" -> "normalize"
      [] w = "Preserve" -> "preserve"
      [] w = "Improve" -> "improve"
      [] w = "Exclude" -> "exclude"
      [] w = "Brand-Faithful" -> "brand-faithful"
      [] w = "Not a clone" -> "not a clone"
      [] OTHER -> w

Lower(words) == [i \in 1..Len(words) |-> LowerLexeme(words[i])]

\* lines 57-60: the errors of the required paths that do not exist
RECURSIVE missing_required(_, _)
missing_required(dir, paths) ==
    IF paths = <<>> THEN <<>>
    ELSE IF ~dir[Head(paths)].exists
         THEN <<PkgFinding(Head(paths), "Missing required file", <<>>)>>
              \o missing_required(dir, Tail(paths))
         ELSE missing_required(dir, Tail(paths))

\* lines 81-106: the check of a JSON file that must be an object with keys
json_shape_errors(dir, path, keys, errs) ==
    LET parsed == parse_json(dir[path]) IN
    IF parsed.err # ""
    THEN Append(errs, PkgFinding(path, "invalid JSON", <<parsed.err>>))
    ELSE IF IsDict(parsed.data) THEN require_keys(parsed.data, keys, path, errs)
    ELSE Append(errs, PkgFinding(path, "expected top-level object", <<>>))

\* lines 69-79: the check of tokens/tokens.json
tokens_errors(dir, errs) ==
    LET parsed == parse_json(dir["tokens/tokens.json"]) IN
    IF parsed.err # ""
    THEN Append(errs, PkgFinding("tokens/tokens.json", "invalid JSON", <<parsed.err>>))
    ELSE IF IsDict(parsed.data) THEN errs
    ELSE Append(errs, PkgFinding("tokens/tokens.json", "expected top-level object", <<>>))

tokens_warnings(dir, warns) ==
    LET parsed == parse_json(dir["tokens/tokens.json"]) IN
    IF parsed.err = "" /\ IsDict(parsed.data) /\ MissingKeys(parsed.data, EXPECTED_TOP) # <<>>
    THEN Append(warns, PkgFinding("tokens/tokens.json", "missing recommended token groups",
                                  MissingKeys(parsed.data, EXPECTED_TOP)))
    ELSE warns

\* lines 111-113: one warning for each term the PNIE report does not have
RECURSIVE pnie_warnings(_, _, _)
pnie_warnings(pnie, terms, warns) ==
    IF terms = <<>> THEN warns
    ELSE pnie_warnings(pnie, Tail(terms),
            IF ~Contains(pnie, Head(terms))
            THEN Append(warns, PkgFinding("", "PNIE report does not mention", <<Head(terms)>>))
            ELSE warns)

\* lines 116-118
summary_warnings(text, warns) ==
    IF ~\E i \in 1..Len(NON_DERIVATIVE_MARKERS) :
           Contains(Lower(text), LowerLexeme(NON_DERIVATIVE_MARKERS[i]))
    THEN Append(warns, PkgFinding("",
           "Executive summary may be missing explicit non-derivative guardrail language", <<>>))
    ELSE warns

\* ---- the packages the checker is run on ----

ObjWith(keys) == JObj([k \in keys |-> JInt(1)])
SeqSet(q) == {q[i] : i \in 1..Len(q)}

\* the objects of a JSON file whose keys are checked: all the keys, all but
\* one, none, and an object with a key of another file
KeyedObjects(keys) ==
    {ObjWith(SeqSet(keys))} \cup {ObjWith(SeqSet(keys) \ {k}) : k \in SeqSet(keys)}
    \cup {ObjWith({}), ObjWith({"version"})}

NotObjects == {Null, JBool(TRUE), JInt(1), JStr(<<"x">>), JList(<<>>), JList(<<ObjWith({"pages"})>>)}

JsonFiles(keys) ==
    {UnreadableFile, Prose(<<>>), Prose(<<"x">>)}
    \cup {JsonText(v) : v \in KeyedObjects(keys) \cup NotObjects}

PnieTexts ==
    {Prose(w) : w \in {<<>>, <<"preserve", "normalize", "improve", "exclude">>,
                       <<"Preserve", "Normalize", "Improve", "Exclude">>,
                       <<"Exclude", "Improve">>, <<"Preserve">>, <<"Normalize", "x">>}}

SummaryTexts ==
    {Prose(w) : w \in {<<>>, <<"x">>, <<"not a clone">>, <<"Not a clone">>, <<"Brand-Faithful">>,
                       <<"x", "Normalize">>, <<"must not be copied">>, <<"Preserve">>}}

\* what a required path may hold instead of the deliverable
FilesAt(path) ==
    {MissingFile} \cup
    CASE path = "tokens/tokens.json" -> JsonFiles(EXPECTED_TOP)
      [] path = "evidence/crawl-manifest.json" -> JsonFiles(MANIFEST_KEYS)
      [] path = "evidence/page-weights.json" -> JsonFiles(PAGE_WEIGHTS_KEYS)
      [] path = "evidence/extraction-confidence.json" -> JsonFiles(CONFIDENCE_KEYS)
      [] path = "components/component-contracts.json" ->
            {UnreadableFile, Prose(<<"x">>), JsonText(Null), JsonText(ObjWith({"components"}))}
      [] path = "reports/preserve-normalize-improve-exclude.md" -> {UnreadableFile} \cup PnieTexts
      [] path = "reports/executive-summary.md" -> {UnreadableFile} \cup SummaryTexts
      [] OTHER -> {UnreadableFile, Prose(<<"x">>)}

\* a package with every deliverable in place and nothing to report
GoodPackage ==
    [path \in RequiredPaths |->
        CASE path = "tokens/tokens.json" -> JsonText(ObjWith(SeqSet(EXPECTED_TOP)))
          [] path = "evidence/crawl-manifest.json" -> JsonText(ObjWith(SeqSet(MANIFEST_KEYS)))
          [] path = "evidence/page-weights.json" -> JsonText(ObjWith(SeqSet(PAGE_WEIGHTS_KEYS)))
          [] path = "evidence/extraction-confidence.json" -> JsonText(ObjWith(SeqSet(CONFIDENCE_KEYS)))
          [] path = "components/component-contracts.json" -> JsonText(ObjWith({"components"}))
          [] path = "reports/preserve-normalize-improve-exclude.md" ->
                Prose(<<"Preserve", "Normalize", "Improve", "Exclude">>)
          [] path = "reports/executive-summary.md" -> Prose(<<"not a clone">>)
          [] OTHER -> Prose(<<"x">>)]

\* the good package with the content under one or two paths replaced
Packages ==
    {[[GoodPackage EXCEPT ![p1] = f1] EXCEPT ![p2] = f2] :
        <<p1, f1, p2, f2>> \in
            UNION {{<<p1, f1, p2, f2>> : f1 \in FilesAt(p1), f2 \in FilesAt(p2)} :
                   <<p1, p2>> \in RequiredPaths \X RequiredPaths}}

\* ---- main ----

InitPackage ==
    /\ IntakeIdle /\ CheckersIdle /\ RenderIdle
    /\ pkg_pc = "required"
    /\ root \in Packages
    /\ pkg_errors = <<>> /\ pkg_warnings = <<>>
    /\ pkg_exit = NoExit /\ pkg_summary = NoSummary

PackageStep(from, to) ==
    /\ pkg_pc = from
    /\ pkg_pc' = to
    /\ UNCHANGED <<root, intakeVars, checkerVars, renderVars>>

\* lines 57-60
CheckRequiredPaths ==
    /\ PackageStep("required", "required_checked")
    /\ pkg_errors' = missing_required(root, REQUIRED_PATHS)
    /\ UNCHANGED <<pkg_warnings, pkg_exit, pkg_summary>>

\* lines 62-66
ReportMissing ==
    /\ pkg_errors # <<>>
    /\ PackageStep("required_checked", "done")
    /\ pkg_exit' = 1
    /\ pkg_summary' = [line |-> "Validation failed (missing required files)",
                       errors |-> Len(pkg_errors), warnings |-> 0]
    /\ UNCHANGED <<pkg_errors, pkg_warnings>>

\* lines 69-79
CheckTokens ==
    /\ pkg_errors = <<>>
    /\ PackageStep("required_checked", "manifest")
    /\ pkg_errors' = tokens_errors(root, pkg_errors)
    /\ pkg_warnings' = tokens_warnings(root, pkg_warnings)
    /\ UNCHANGED <<pkg_exit, pkg_summary>>

CheckJson(from, to, path, keys) ==
    /\ PackageStep(from, to)
    /\ pkg_errors' = json_shape_errors(root, path, keys, pkg_errors)
    /\ UNCHANGED <<pkg_warnings, pkg_exit, pkg_summary>>

\* lines 81-88
CheckManifest == CheckJson("manifest", "page_weights", "evidence/crawl-manifest.json", MANIFEST_KEYS)
\* lines 90-97
CheckPageWeights == CheckJson("page_weights", "confidence", "evidence/page-weights.json", PAGE_WEIGHTS_KEYS)
\* lines 99-106
CheckConfidence == CheckJson("confidence", "pnie", "evidence/extraction-confidence.json", CONFIDENCE_KEYS)

\* lines 109-113: read_text is not guarded; what it raises leaves main
CheckPnie ==
    LET f == root["reports/preserve-normalize-improve-exclude.md"] IN
    /\ PackageStep("pnie", IF f.readable THEN "summary" ELSE "raised")
    /\ pkg_warnings' = IF f.readable THEN pnie_warnings(f.words, EXPECTED_TERMS, pkg_warnings)
                       ELSE pkg_warnings
    /\ UNCHANGED <<pkg_errors, pkg_exit, pkg_summary>>

\* lines 115-118: the same for the executive summary
CheckSummary ==
    LET f == root["reports/executive-summary.md"] IN
    /\ PackageStep("summary", IF f.readable THEN "report" ELSE "raised")
    /\ pkg_warnings' = IF f.readable THEN summary_warnings(f.words, pkg_warnings)
                       ELSE pkg_warnings
    /\ UNCHANGED <<pkg_errors, pkg_exit, pkg_summary>>

\* lines 120-130
ReportPackage ==
    /\ PackageStep("report", "done")
    /\ pkg_exit' = IF pkg_errors # <<>> THEN 1 ELSE 0
    /\ pkg_summary' = [line |-> IF pkg_errors # <<>> THEN "Validation failed" ELSE "Validation passed",
                       errors |-> Len(pkg_errors), warnings |-> Len(pkg_warnings)]
    /\ UNCHANGED <<pkg_errors, pkg_warnings>>

NextPackage ==
    \/ CheckRequiredPaths
    \/ ReportMissing
    \/ CheckTokens
    \/ CheckManifest
    \/ CheckPageWeights
    \/ CheckConfidence
    \/ CheckPnie
    \/ CheckSummary
    \/ ReportPackage

SpecPackage == InitPackage /\ [][NextPackage]_vars

(* ------------------------------ C11 ----------------------------------- *)

JSON_DELIVERABLES == {path \in RequiredPaths : path \in
    {"tokens/tokens.json", "components/component-contracts.json", "evidence/crawl-manifest.json",
     "evidence/page-weights.json", "evidence/extraction-confidence.json"}}

\* the keys the top-level object of a JSON deliverable must have
ShapeKeys(path) ==
    CASE path = "evidence/crawl-manifest.json" -> MANIFEST_KEYS
      [] path = "evidence/page-weights.json" -> PAGE_WEIGHTS_KEYS
      [] path = "evidence/extraction-confidence.json" -> CONFIDENCE_KEYS
      [] OTHER -> <<>>

SomeRequiredMissing == \E path \in RequiredPaths : ~root[path].exists

FailsToParse(path) == ~root[path].readable \/ ~root[path].json

\* the files main gives a shape check: a top-level object with its keys
ShapeChecked(path) == path # "components/component-contracts.json"

FailsShape(path) ==
    /\ ShapeChecked(path)
    /\ ~FailsToParse(path)
    /\ \/ ~IsDict(root[path].value)
       \/ MissingKeys(root[path].value, ShapeKeys(path)) # <<>>

SomeJsonFails == \E path \in JSON_DELIVERABLES : FailsToParse(path) \/ FailsShape(path)

PackageRunOver == pkg_pc \in {"done", "raised"}

\* C11: when a run of the output-package checker is over, it has returned
\* exit code 1 exactly when a required path is missing or a JSON deliverable
\* fails to parse or fails its top-level shape check, and in every other
\* case it has returned 0 with a summary line that reports the number of
\* warnings.
C11_ExitOneIffMissingOrBadJson ==
    PackageRunOver =>
        /\ pkg_exit = 1 <=> (SomeRequiredMissing \/ SomeJsonFails)
        /\ ~(SomeRequiredMissing \/ SomeJsonFails) =>
              /\ pkg_exit = 0
              /\ pkg_summary = [line |-> "Validation passed", errors |-> 0,
                                warnings |-> Len(pkg_warnings)]

\* the two ways the run leaves the claim, each a state TLC reaches
C11_ContractsNeverParsed ==
    /\ pkg_pc = "done" /\ pkg_exit = 0
    /\ FailsToParse("components/component-contracts.json")

C11_UnreadableReportRaises ==
    /\ pkg_pc = "raised" /\ pkg_exit = NoExit
    /\ ~SomeRequiredMissing /\ ~SomeJsonFails

\* what does hold of the runs that return: exit code 1 exactly when a
\* required path is missing or one of the four JSON files main parses fails
PARSED_JSON == {path \in JSON_DELIVERABLES : ShapeChecked(path)}

C11_ReturnedRuns ==
    pkg_pc = "done" =>
        /\ pkg_exit = 1 <=>
              \/ SomeRequiredMissing
              \/ \E path \in PARSED_JSON : FailsToParse(path) \/ FailsShape(path)
        /\ pkg_exit \in {0, 1}
        /\ pkg_exit = 0 => pkg_summary = [line |-> "Validation passed", errors |-> 0,
                                          warnings |-> Len(pkg_warnings)]

====
